---- MODULE Spec2Model ----
(***************************************************************************)
(* NiftyTTS job pipeline: the producer (app/app.py build_job) writes a     *)
(* text file and a metadata file into jobs/incoming, the dispatcher        *)
(* (app/watchers/dispatcher_watch.py run) polls that directory, claims     *)
(* jobs, calls a backend's synthesize_to_mp3 and the finalizer, and        *)
(* records failures in a sidecar error file under jobs/outgoing.           *)
(***************************************************************************)
EXTENDS Integers, FiniteSets, Sequences, TLC

(* ------------------------------ bounds --------------------------------- *)
\* largest byte count an engine run produces in the model
MaxSize == 1
\* number of dispatcher process restarts explored
MaxRestarts == 1
\* the clock of the front end stops after MaxClock half minutes
MaxClock == 3
\* number of job text files followed from build_job to the dispatcher
MaxHanded == 2

\* base names the producer may create, and output_rel values the deriver
\* may return for them (two base names may get the same output_rel)
Jobs == {"j1", "j2"}
Rels == {"r1", "r2"}
Sizes == 0..MaxSize
\* dispatcher process slots
Disps == {"d1", "d2"}

(* --------------------------- program values ---------------------------- *)
\* backend_id of the three registered backends
BackendIds == {"edge", "pyttsx3", "piper"}
\* values of NIFTYTTS_BACKEND / BACKEND explored (one of them an unknown id)
DefaultIds == {"edge", "pyttsx3", "nosuch"}
\* values of the optional "backend" key of a job's metadata document
HintIds == {"", "piper"}

\* _REGISTRY = None (a set that holds no backend id), and no call made yet
NoRegistry == {"None"}
NoReply == [kind |-> "", value |-> {}]
NoWatcher == "none"
NoJob == "nojob"
NoPath == <<"none", "none">>
\* outgoing/<base>.mp3 (no usable output_rel) and outgoing/<output_rel>
BasePath(j) == <<"base", j>>
RelPath(r) == <<"rel", r>>
Paths == {BasePath(j) : j \in Jobs} \cup {RelPath(r) : r \in Rels}
\* out_mp3.parent: the outgoing directory itself for outgoing/<base>.mp3,
\* the item folder of output_rel otherwise (it ends in <Title>/<Title>.mp3)
FolderOf(p) == IF p[1] = "base" THEN "out" ELSE p[2]
Folders == {FolderOf(p) : p \in Paths}
NoOpf == ""

\* content of an error record: its message and the backend id the message
\* names (traceback and text sample are left out); msg = "" stands for
\* "no such file"
NoErr == [msg |-> "", be |-> ""]
\* a metadata document: st is "absent" (no file, or a file that does not
\* parse yet: every reader treats the two alike) or "full"; a full one has
\* output_rel and maybe a backend
NoDoc == [st |-> "absent", output_rel |-> "", backend |-> ""]
JsonDocs == [st : {"full"}, output_rel : Rels, backend : HintIds]
\* output_rel values build_job may compute for a base name: the first base
\* name's value is called r1, the second one's is the same or another one
RelsFor(j) == IF j = "j1" THEN {"r1"} ELSE Rels
\* the first base name's document has no "backend" key (build_job writes
\* none), the second one's may name a backend
HintsFor(j) == IF j = "j1" THEN {""} ELSE HintIds

VARIABLES
    txt,          \* incoming/<base>.txt : "absent" | "empty" | "full"
    json,         \* incoming/<base>.json: NoDoc | a JsonDocs record
    mp3,          \* outgoing artifact per path: -1 (absent) or its audio bytes
    tagged,       \* paths whose artifact carries an ID3 header
    err,          \* outgoing error record per artifact path
    tmp,          \* temporary files per artifact path: subset of {"edge", "dot"}
    opf,          \* metadata.opf per output folder: NoOpf, or the base name of
                  \*   the job whose metadata it was written from
    dirs,         \* the folders that exist in outgoing/ ("out": outgoing/ itself)
    min_bytes,    \* NIFTYTTS_MIN_MP3_BYTES
    selected,     \* default backend id read from the environment
    pc,           \* per dispatcher: "off" | "poll" | "synth" | "finalize" | "dead"
    seen,         \* per dispatcher: the in-memory set of claimed base names
    todo,         \* per dispatcher: listed base names still to visit in this tick
    cur,          \* per dispatcher: base name being processed
    curOut,       \* per dispatcher: out_mp3 resolved for cur
    curBe,        \* per dispatcher: backend id chosen for cur
    last,         \* history: what the last step did: the base name whose text a
                  \*   dispatcher read after claiming it, whether it called
                  \*   synthesize_to_mp3 for it, and whether the base name was
                  \*   in interrupted
    errWritten,   \* history: base names for which _write_err has written a record
    restarts,     \* number of process restarts so far
    interrupted,  \* history: base names whose processing a process stop cut
                  \*   short before artifact or error record, not claimed since
    clock,        \* front end: the time now, in half minutes
    derives,      \* front end: calls of output_relpath_for, with their results
    submits,      \* front end: calls of build_job, with their results
    incoming,     \* front end: the files of incoming/ by computed base name
    registry,     \* backends: _REGISTRY, NoRegistry or the registered ids
    imported,     \* backends: the ids whose engine library the backend object
                  \*   got hold of when it was constructed
    deps,         \* the ids whose external dependency is present right now
    reply,        \* what the last call into the registry returned
    watcher,      \* the single-engine watcher script that runs in process
                  \*   slot d2, NoWatcher while none does
    handed        \* job text files by the build_job call that wrote them: the
                  \*   characters of the file and what the dispatcher made of
                  \*   them

fsVars == <<txt, json, mp3, tagged, err, tmp, opf, dirs>>
regVars == <<registry, imported, deps, reply>>
cfgVars == <<min_bytes, selected, regVars, watcher, handed>>
dispVars == <<pc, seen, todo, cur, curOut, curBe>>
histVars == <<last, errWritten, interrupted, restarts>>
frontVars == <<clock, derives, submits, incoming>>
vars == <<txt, json, mp3, tagged, err, tmp, opf, dirs, min_bytes, selected,
          pc, seen, todo, cur, curOut, curBe,
          last, errWritten, interrupted, restarts,
          clock, derives, submits, incoming,
          registry, imported, deps, reply, watcher, handed>>

(* ----------------------------- job store ------------------------------- *)
JsonFull(j) == json[j].st = "full"

\* _out_paths / mp3_path_for: outgoing/<output_rel> when the metadata file
\* parses and has an output_rel, else outgoing/<base>.mp3
OutPath(j) == IF JsonFull(j) THEN RelPath(json[j].output_rel) ELSE BasePath(j)

\* st_size of the artifact at p: audio bytes plus the ID3 header, if any
FileSize(p) == IF mp3[p] < 0 THEN 0 ELSE mp3[p] + (IF p \in tagged THEN 1 ELSE 0)

\* out_mp3.exists() and out_mp3.stat().st_size > 0
ArtifactReady(p) == mp3[p] >= 0 /\ FileSize(p) > 0
\* err_file.exists() and err_file.stat().st_size > 0
ErrorPresent(p) == err[p].msg # ""

is_ready(j) == ArtifactReady(OutPath(j))
is_errored(j) == ErrorPresent(OutPath(j))

\* both files of the job record are completely written
Submitted(j) == txt[j] = "full" /\ JsonFull(j)

\* nothing claimed in this step
Quiet == [by |-> "", claimed |-> NoJob, synth |-> FALSE, again |-> FALSE]

(* ------------------------------- Init ---------------------------------- *)
Init ==
    /\ txt = [j \in Jobs |-> "absent"]
    /\ json = [j \in Jobs |-> NoDoc]
    /\ mp3 = [p \in Paths |-> -1]
    /\ tagged = {}
    /\ err = [p \in Paths |-> NoErr]
    /\ tmp = [p \in Paths |-> {}]
    /\ opf = [f \in Folders |-> NoOpf]
    /\ dirs = {"out"}
    /\ min_bytes \in Sizes
    /\ selected \in DefaultIds
    /\ pc = [d \in Disps |-> IF d = "d1" THEN "poll" ELSE "off"]
    /\ seen = [d \in Disps |-> {}]
    /\ todo = [d \in Disps |-> {}]
    /\ cur = [d \in Disps |-> NoJob]
    /\ curOut = [d \in Disps |-> NoPath]
    /\ curBe = [d \in Disps |-> ""]
    /\ last = Quiet
    /\ errWritten = {}
    /\ interrupted = {}
    /\ restarts = 0
    /\ clock = 0
    /\ derives = <<>>
    /\ submits = <<>>
    /\ incoming = <<>>
    /\ registry = NoRegistry
    /\ imported = {}
    /\ deps = BackendIds
    /\ reply = NoReply
    /\ watcher = NoWatcher
    /\ handed = <<>>

(* --------------------------- producer: build_job ----------------------- *)
\* text_path.write_text(...): open() creates the file, empty
SubmitOpenTxt(j) ==
    /\ txt[j] = "absent"
    /\ UNCHANGED <<opf, dirs>>
    /\ txt' = [txt EXCEPT ![j] = "empty"]
    /\ UNCHANGED <<json, mp3, tagged, err, tmp>>
    /\ last' = Quiet
    /\ UNCHANGED <<cfgVars, dispVars, errWritten, interrupted, restarts>>
    /\ UNCHANGED frontVars

\* ... then the body is written and the file closed
SubmitWriteTxt(j) ==
    /\ txt[j] = "empty"
    /\ UNCHANGED <<opf, dirs>>
    /\ txt' = [txt EXCEPT ![j] = "full"]
    /\ UNCHANGED <<json, mp3, tagged, err, tmp>>
    /\ last' = Quiet
    /\ UNCHANGED <<cfgVars, dispVars, errWritten, interrupted, restarts>>
    /\ UNCHANGED frontVars

\* meta_path.write_text(...), after the text file: the document with the
\* computed output_rel becomes readable
SubmitWriteJson(j) ==
    /\ txt[j] = "full"
    /\ UNCHANGED <<opf, dirs>>
    /\ json[j] = NoDoc
    /\ \E doc \in JsonDocs :
         /\ doc.output_rel \in RelsFor(j)
         /\ doc.backend \in HintsFor(j)
         /\ json' = [json EXCEPT ![j] = doc]
    /\ UNCHANGED <<txt, mp3, tagged, err, tmp>>
    /\ last' = Quiet
    /\ UNCHANGED <<cfgVars, dispVars, errWritten, interrupted, restarts>>
    /\ UNCHANGED frontVars

build_job(j) ==
    \/ SubmitOpenTxt(j)
    \/ SubmitWriteTxt(j)
    \/ SubmitWriteJson(j)

(* ------------------------- dispatcher: run() --------------------------- *)
\* the three messages _write_err is called with
ErrEmpty == [msg |-> "Empty text after preprocessing", be |-> ""]
ErrUnavailable(be) ==
    [msg |-> "Requested backend is not available",
     be |-> IF be = "" THEN "(none)" ELSE be]
ErrSynth(be) == [msg |-> "Exception during synthesis via", be |-> be]

\* be_id: the job's own "backend" key when its metadata parses and has one,
\* else the default read from the environment
\* (variant: the configured default wins over the job's hint)
BackendForDefaultFirst(j) ==
    IF selected # "" THEN selected ELSE json[j].backend
BackendFor(j) ==
    IF JsonFull(j) /\ json[j].backend # "" THEN json[j].backend ELSE selected

\* (variant: the availability check is left out)
BackendUsableUnchecked(be, ok) == be \in BackendIds
\* get_backend(be_id) finds a registered backend and its available() returned ok
BackendUsable(be, ok) == be \in BackendIds /\ ok

\* (variant: the in-memory set is not consulted)
ShouldSkipWithoutSeen(d, j) ==
    \/ ArtifactReady(OutPath(j))
    \/ ErrorPresent(OutPath(j))
\* (variant: a job another process has claimed is skipped too)
ShouldSkipClaimed(d, j) ==
    \/ \E o \in Disps : j \in seen[o]
    \/ ArtifactReady(OutPath(j))
    \/ ErrorPresent(OutPath(j))
\* "Skip if processed or errored already"
ShouldSkip(d, j) ==
    \/ j \in seen[d]
    \/ ArtifactReady(OutPath(j))
    \/ ErrorPresent(OutPath(j))

\* seen: set[str] = set() at the start of run()
FreshSeen(d) == {}

\* for txt_path in IN_DIR.glob("*.txt")
Listing == {j \in Jobs : txt[j] # "absent"}

\* start of a poll tick: list the incoming text files
Tick(d) ==
    /\ pc[d] = "poll"
    /\ todo[d] = {}
    /\ Listing # {}
    /\ todo' = [todo EXCEPT ![d] = Listing]
    /\ last' = Quiet
    /\ UNCHANGED <<pc, seen, cur, curOut, curBe>>
    /\ UNCHANGED <<fsVars, cfgVars, errWritten, interrupted, restarts>>
    /\ UNCHANGED frontVars

\* one iteration of the for loop up to the synthesize_to_mp3 call;
\* ok is what the chosen backend's available() returns
Visit(d, j, ok) ==
    /\ pc[d] = "poll"
    /\ UNCHANGED opf
    /\ dirs' = dirs \cup {FolderOf(OutPath(j))}
    /\ j \in todo[d]
    /\ todo' = [todo EXCEPT ![d] = @ \ {j}]
    /\ UNCHANGED <<txt, json, mp3, tagged, tmp, cfgVars, frontVars, restarts>>
    /\ LET p == OutPath(j)
           be == BackendFor(j)
       IN  IF ShouldSkip(d, j)
           THEN /\ last' = Quiet
                /\ UNCHANGED <<err, pc, seen, cur, curOut, curBe,
                               errWritten, interrupted>>
           ELSE /\ seen' = [seen EXCEPT ![d] = @ \cup {j}]
                /\ interrupted' = interrupted \ {j}
                /\ IF txt[j] = "empty"
                   THEN /\ err' = [err EXCEPT ![p] = ErrEmpty]
                        /\ errWritten' = errWritten \cup {j}
                        /\ last' = [by |-> d, claimed |-> j, synth |-> FALSE,
                                 again |-> j \in interrupted]
                        /\ UNCHANGED <<pc, cur, curOut, curBe>>
                   ELSE IF ~BackendUsable(be, ok)
                   THEN /\ err' = [err EXCEPT ![p] = ErrUnavailable(be)]
                        /\ errWritten' = errWritten \cup {j}
                        /\ last' = [by |-> d, claimed |-> j, synth |-> FALSE,
                                 again |-> j \in interrupted]
                        /\ UNCHANGED <<pc, cur, curOut, curBe>>
                   ELSE /\ pc' = [pc EXCEPT ![d] = "synth"]
                        /\ cur' = [cur EXCEPT ![d] = j]
                        /\ curOut' = [curOut EXCEPT ![d] = p]
                        /\ curBe' = [curBe EXCEPT ![d] = be]
                        /\ last' = [by |-> d, claimed |-> j, synth |-> TRUE,
                                 again |-> j \in interrupted]
                        /\ UNCHANGED <<err, errWritten>>

\* back to the for loop after a job has been handled
Handled(d) ==
    /\ pc' = [pc EXCEPT ![d] = "poll"]
    /\ cur' = [cur EXCEPT ![d] = NoJob]
    /\ curOut' = [curOut EXCEPT ![d] = NoPath]
    /\ curBe' = [curBe EXCEPT ![d] = ""]

\* except Exception as e: _write_err(err_file, base, ...)
HandleException(d, exc) ==
    /\ err' = [err EXCEPT ![curOut[d]] = ErrSynth(curBe[d])]
    /\ errWritten' = errWritten \cup {cur[d]}
    /\ Handled(d)

(* ------------------- backends: synthesize_to_mp3 ----------------------- *)
\* temporary files a backend writes for destination out_mp3: edge writes
\* <out_mp3>.tmp ("edge"); piper and pyttsx3 write .tmp/<stem>.wav and
\* .tmp/<stem>.mp3 ("dot" stands for either of the two being there)
TempOf(be) == IF be = "edge" THEN "edge" ELSE "dot"

\* the engine is running and has created (part of) its temporary file
EngineProgress(d) ==
    /\ pc[d] = "synth"
    /\ UNCHANGED <<opf, dirs>>
    /\ TempOf(curBe[d]) \notin tmp[curOut[d]]
    /\ tmp' = [tmp EXCEPT ![curOut[d]] = @ \cup {TempOf(curBe[d])}]
    /\ UNCHANGED <<txt, json, mp3, tagged, err>>
    /\ last' = Quiet
    /\ UNCHANGED <<cfgVars, dispVars, errWritten, interrupted, restarts>>
    /\ UNCHANGED frontVars

\* the engine call timed out or failed: the exception leaves synthesize_to_mp3
\* (no cleanup on that path) and the dispatcher writes the error record
EngineFail(d, exc) ==
    /\ pc[d] = "synth"
    /\ UNCHANGED <<opf, dirs>>
    /\ exc \in {"timeout", "engine_error"}
    /\ HandleException(d, exc)
    /\ UNCHANGED <<txt, json, mp3, tagged, tmp>>
    /\ last' = Quiet
    /\ UNCHANGED <<seen, todo, cfgVars, frontVars, interrupted, restarts>>

\* sizes the temporary MP3 can have when the engine (and the transcoder)
\* returned normally; NoFile: it returned without leaving the file
NoFile == -1
EngineOutputs == {NoFile} \cup Sizes

\* (variant: the size of the temporary MP3 is not checked)
TooSmallUnchecked(s) == FALSE
\* if size < self.min_bytes: raise RuntimeError("... too small")
TooSmall(s) == s < min_bytes

\* the byte count synthesize_to_mp3 returns when it returns normally: the
\* size of the temporary MP3 it renamed, or (edge, no temporary file) the
\* size of the file it found at out_mp3
ReturnedBytes(p, s) == IF s # NoFile THEN s ELSE FileSize(p)

\* what a backend does with a temporary MP3 smaller than min_bytes before it
\* raises: edge unlinks it, piper and pyttsx3 leave their temporary files
TempsAfterTooSmall(be, t) == IF be = "edge" THEN t \ {"edge"} ELSE t

\* the engine returned normally with a temporary MP3 of s bytes: the size
\* check and the rename onto out_mp3, or the exception and the dispatcher's
\* handling of it
EngineDone(d, s) ==
    /\ pc[d] = "synth"
    /\ UNCHANGED <<opf, dirs>>
    /\ s \in EngineOutputs
    /\ last' = Quiet
    /\ UNCHANGED <<txt, json, seen, todo, cfgVars, interrupted, restarts>>
    /\ UNCHANGED frontVars
    /\ LET p == curOut[d]
           be == curBe[d]
       IN  IF s # NoFile
           THEN IF TooSmall(s)
                THEN /\ tmp' = [tmp EXCEPT ![p] =
                                   TempsAfterTooSmall(be, @ \cup {TempOf(be)})]
                     /\ HandleException(d, "too_small")
                     /\ UNCHANGED <<mp3, tagged>>
                ELSE /\ mp3' = [mp3 EXCEPT ![p] = s]
                     /\ tagged' = tagged \ {p}
                     /\ tmp' = [tmp EXCEPT ![p] = @ \ {TempOf(be)}]
                     /\ pc' = [pc EXCEPT ![d] = "finalize"]
                     /\ UNCHANGED <<err, errWritten, cur, curOut, curBe>>
           ELSE /\ TempOf(be) \notin tmp[p]
                /\ IF be = "edge" /\ mp3[p] >= 0 /\ FileSize(p) >= min_bytes
                   THEN /\ pc' = [pc EXCEPT ![d] = "finalize"]
                        /\ UNCHANGED <<mp3, tagged, tmp, err, errWritten,
                                       cur, curOut, curBe>>
                   ELSE /\ HandleException(d, "no_output")
                        /\ UNCHANGED <<mp3, tagged, tmp>>

(* -------------------------- finalize_output ---------------------------- *)
\* outcomes of finalize_output: it returns, or one of the unguarded tagging
\* calls raises before (_ensure_id3) or after the ID3 header was written
FinalizeOutcomes == {"ok", "raise_early", "raise_late"}

\* _ensure_folder_opf: writes metadata.opf from the job's metadata only when
\* the folder has none
EnsureFolderOpf(f, j) == IF opf[f] # NoOpf THEN opf ELSE [opf EXCEPT ![f] = j]

Finalize(d, outcome) ==
    /\ pc[d] = "finalize"
    /\ outcome \in FinalizeOutcomes
    /\ LET p == curOut[d]
       IN  /\ tagged' = IF outcome # "raise_early" /\ mp3[p] >= 0
                        THEN tagged \cup {p} ELSE tagged
           /\ IF outcome = "ok"
              THEN /\ err' = [err EXCEPT ![p] = NoErr]
                   /\ opf' = EnsureFolderOpf(FolderOf(p), cur[d])
                   /\ Handled(d)
                   /\ UNCHANGED errWritten
              ELSE /\ HandleException(d, "finalize")
                   /\ UNCHANGED opf
    /\ UNCHANGED <<txt, json, mp3, tmp, dirs>>
    /\ last' = Quiet
    /\ UNCHANGED <<seen, todo, cfgVars, frontVars, interrupted, restarts>>

(* ------------------ exceptions outside the try block ------------------- *)
\* calls of the loop body that no try covers: _out_paths (mkdir, stat) before
\* the skip check; txt_path.read_text; the chosen backend's available()
\* (piper's _check_tool catches FileNotFoundError only); _write_err
EscapePoints == {"out_paths", "read_text", "available", "write_err"}

\* one of them raises while listed job j is handled: the exception leaves
\* run() and the process ends
LoopEscape(d, j, at) ==
    /\ pc[d] = "poll"
    /\ j \in todo[d]
    /\ at \in EscapePoints
    /\ at # "out_paths" => ~ShouldSkip(d, j)
    /\ at = "available" => (txt[j] = "full" /\ BackendFor(j) = "piper")
    /\ pc' = [pc EXCEPT ![d] = "dead"]
    /\ seen' = [seen EXCEPT ![d] = {}]
    /\ todo' = [todo EXCEPT ![d] = {}]
    /\ interrupted' = IF at # "out_paths" THEN interrupted \cup {j} ELSE interrupted
    /\ last' = Quiet
    /\ dirs' = IF at # "out_paths" THEN dirs \cup {FolderOf(OutPath(j))}
                                  ELSE dirs
    /\ UNCHANGED <<txt, json, mp3, tagged, err, tmp, opf, cfgVars, frontVars>>
    /\ UNCHANGED <<cur, curOut, curBe, errWritten, restarts>>

(* --------------------- process stop and new start ---------------------- *)
\* the dispatcher process is stopped wherever it is and started again:
\* run() begins with _ensure_dirs (removes outgoing/*.mp3.tmp, top level
\* only) and a fresh seen set
Restart(d) ==
    /\ pc[d] # "off"
    /\ UNCHANGED <<opf, dirs>>
    /\ restarts < MaxRestarts
    /\ restarts' = restarts + 1
    /\ pc' = [pc EXCEPT ![d] = "poll"]
    /\ seen' = [seen EXCEPT ![d] = FreshSeen(d)]
    /\ todo' = [todo EXCEPT ![d] = {}]
    /\ cur' = [cur EXCEPT ![d] = NoJob]
    /\ curOut' = [curOut EXCEPT ![d] = NoPath]
    /\ curBe' = [curBe EXCEPT ![d] = ""]
    /\ tmp' = [p \in Paths |-> IF p[1] = "base" THEN tmp[p] \ {"edge"} ELSE tmp[p]]
    /\ interrupted' =
         IF cur[d] # NoJob /\ ~is_ready(cur[d]) /\ ~is_errored(cur[d])
         THEN interrupted \cup {cur[d]} ELSE interrupted
    /\ UNCHANGED <<txt, json, mp3, tagged, err>>
    /\ last' = Quiet
    /\ UNCHANGED <<cfgVars, frontVars, errWritten>>

\* a further dispatcher process is started on the same jobs/ directory:
\* run() begins with _ensure_dirs and a fresh seen set
Start(d) ==
    /\ pc[d] = "off"
    /\ pc' = [pc EXCEPT ![d] = "poll"]
    /\ seen' = [seen EXCEPT ![d] = FreshSeen(d)]
    /\ tmp' = [p \in Paths |-> IF p[1] = "base" THEN tmp[p] \ {"edge"} ELSE tmp[p]]
    /\ last' = Quiet
    /\ UNCHANGED <<txt, json, mp3, tagged, err, opf, dirs>>
    /\ UNCHANGED <<todo, cur, curOut, curBe>>
    /\ UNCHANGED <<cfgVars, frontVars, errWritten, interrupted, restarts>>

(* --------------------------- backend registry ------------------------- *)
\* the backends whose available() answers from what __init__ imported
CachingBackends == {"edge", "pyttsx3"}

\* (variant: an exception of one import leaves the loader; nothing is kept)
load_backends_unguarded(failing) ==
    IF registry # NoRegistry THEN [reg |-> registry, raised |-> FALSE]
    ELSE IF failing # {} THEN [reg |-> NoRegistry, raised |-> TRUE]
    ELSE [reg |-> BackendIds, raised |-> FALSE]
\* _load_backends: returns _REGISTRY when it is set; else imports the three
\* modules, each in its own try/except, and keeps the backends of those that
\* did not raise; failing is the set of modules whose import raises
load_backends(failing) ==
    IF registry # NoRegistry THEN [reg |-> registry, raised |-> FALSE]
    ELSE [reg |-> {m \in BackendIds : m \notin failing}, raised |-> FALSE]

\* available() of backend be: edge and pyttsx3 answer whether __init__ could
\* import the engine library, piper runs its tools and looks for its model
available(be, imp, present) ==
    IF be \in CachingBackends THEN be \in imp ELSE be \in present

\* the effect of _load_backends on the process: the registry, and what the
\* constructors of the imported modules got hold of
Loaded(failing) ==
    LET l == load_backends(failing)
    IN  /\ registry' = l.reg
        /\ imported' = IF registry = NoRegistry /\ ~l.raised
                        THEN l.reg \cap CachingBackends \cap deps
                        ELSE imported
        /\ UNCHANGED <<deps, min_bytes, selected, watcher, handed>>
        /\ UNCHANGED <<fsVars, dispVars, histVars, frontVars>>

all_backends(failing) ==
    /\ Loaded(failing)
    /\ reply' = IF load_backends(failing).raised
                THEN [kind |-> "raise", value |-> {}]
                ELSE [kind |-> "all", value |-> registry']

available_backends(failing) ==
    /\ Loaded(failing)
    /\ reply' = IF load_backends(failing).raised
                THEN [kind |-> "raise", value |-> {}]
                ELSE [kind |-> "available",
                      value |-> {b \in registry' : available(b, imported', deps)}]

\* get_backend(backend_id): None for an empty id, without loading
get_backend(backend_id, failing) ==
    IF backend_id = ""
    THEN /\ reply' = [kind |-> "get", value |-> {}]
         /\ UNCHANGED <<registry, imported, deps, min_bytes, selected, watcher, handed>>
         /\ UNCHANGED <<fsVars, dispVars, histVars, frontVars>>
    ELSE /\ Loaded(failing)
         /\ reply' = IF load_backends(failing).raised
                     THEN [kind |-> "raise", value |-> {}]
                     ELSE [kind |-> "get", value |-> {backend_id} \cap registry']

\* an external dependency (engine library, executable, model file) of backend
\* be is installed or removed while the process runs
DependencyChange(be) ==
    /\ deps' = IF be \in deps THEN deps \ {be} ELSE deps \cup {be}
    /\ UNCHANGED <<registry, imported, reply, min_bytes, selected, watcher, handed>>
    /\ UNCHANGED <<fsVars, dispVars, histVars, frontVars>>

(* ----------------------- single-engine watchers ------------------------ *)
\* tts_watch_edge, tts_watch_piper, tts_watch_pyttsx and tts_watch_stub: each
\* polls incoming/ as the dispatcher does and handles a job in one go (their
\* temporary files are not modelled)
WatcherKinds == {"edge", "piper", "pyttsx", "stub"}

\* the path whose artifact and sidecar the skip check looks at, and whose
\* sidecar is unlinked after a success: the stub looks at OUT_DIR/<base>.mp3,
\* the others at what out_path made of output_rel
WatcherSkipPath(w, j) == IF w = "stub" THEN BasePath(j) ELSE OutPath(j)

\* the artifact path next to which write_err puts the record: write_err
\* writes OUT_DIR/<base>.err.txt; only the edge watcher passes err_file, and
\* only for an exception during synthesis
WatcherErrPath(w, j, at) ==
    IF w = "edge" /\ at = "synth" THEN OutPath(j) ELSE BasePath(j)

\* main() of watcher script w starts: ensure_dirs and a fresh seen set
StartWatcher(w) ==
    /\ watcher = NoWatcher
    /\ pc["d2"] = "off"
    /\ watcher' = w
    /\ pc' = [pc EXCEPT !["d2"] = "poll"]
    /\ seen' = [seen EXCEPT !["d2"] = FreshSeen("d2")]
    /\ tmp' = IF w = "edge"
              THEN [p \in Paths |-> IF p[1] = "base" THEN tmp[p] \ {"edge"}
                                                       ELSE tmp[p]]
              ELSE tmp
    /\ last' = Quiet
    /\ UNCHANGED <<txt, json, mp3, tagged, err, opf, dirs>>
    /\ UNCHANGED <<todo, cur, curOut, curBe, interrupted, restarts, frontVars>>
    /\ UNCHANGED <<min_bytes, selected, regVars, handed, errWritten>>

\* for txt in IN_DIR.glob("*.txt")
WatcherTick ==
    /\ watcher # NoWatcher
    /\ Tick("d2")

\* one iteration of the watcher's loop for listed job j: skip check, empty
\* text, synthesis (s: size of the MP3 the engine left, NoFile when it raised
\* or left none), finalize_output (o), and the error record of a failure
WatcherJob(j, s, o) ==
    /\ watcher # NoWatcher
    /\ pc["d2"] = "poll"
    /\ j \in todo["d2"]
    /\ s \in EngineOutputs
    /\ o \in FinalizeOutcomes
    /\ todo' = [todo EXCEPT !["d2"] = @ \ {j}]
    /\ last' = Quiet
    /\ UNCHANGED <<txt, json, tmp, pc, cur, curOut, curBe>>
    /\ UNCHANGED <<cfgVars, frontVars, interrupted, restarts>>
    /\ LET w == watcher
           p == OutPath(j)
           q == WatcherSkipPath(w, j)
           skip == \/ j \in seen["d2"]
                   \/ ArtifactReady(q)
                   \/ ErrorPresent(q)
           renamed == s # NoFile /\ (w = "stub" \/ ~TooSmall(s))
           found == /\ w = "edge" /\ s = NoFile
                    /\ mp3[p] >= 0 /\ FileSize(p) >= min_bytes
           done == (renamed \/ found) /\ o = "ok"
           written == IF renamed THEN tagged \ {p} ELSE tagged
       IN  /\ dirs' = IF w = "stub" /\ skip THEN dirs
                                            ELSE dirs \cup {FolderOf(p)}
           /\ IF skip
              THEN UNCHANGED <<seen, mp3, tagged, err, opf, errWritten>>
              ELSE /\ seen' = [seen EXCEPT !["d2"] = @ \cup {j}]
                   /\ IF txt[j] = "empty"
                      THEN /\ err' = [err EXCEPT
                                        ![WatcherErrPath(w, j, "empty")] = ErrEmpty]
                           /\ errWritten' = errWritten \cup {j}
                           /\ UNCHANGED <<mp3, tagged, opf>>
                      ELSE /\ mp3' = IF renamed THEN [mp3 EXCEPT ![p] = s] ELSE mp3
                           /\ tagged' =
                                IF (renamed \/ found) /\ o # "raise_early"
                                   /\ ~(w = "stub" /\ o = "ok")
                                THEN written \cup {p} ELSE written
                           /\ opf' = IF done THEN EnsureFolderOpf(FolderOf(p), j)
                                             ELSE opf
                           /\ err' = IF done
                                     THEN [err EXCEPT ![q] = NoErr]
                                     ELSE [err EXCEPT
                                             ![WatcherErrPath(w, j, "synth")] =
                                                 ErrSynth(w)]
                           /\ errWritten' = IF done THEN errWritten
                                                    ELSE errWritten \cup {j}

(* --------------------------- status reporter -------------------------- *)
\* mp3_path_for: OUT_DIR/<output_rel> when the metadata file parses and has
\* one, else OUT_DIR/<base>.mp3; err_path_for is the sidecar of that path
mp3_path_for(j) ==
    IF JsonFull(j) THEN RelPath(json[j].output_rel) ELSE BasePath(j)

\* (variant: the size of the file is not looked at)
download_any_size(j) ==
    IF mp3[mp3_path_for(j)] < 0 THEN "not_found" ELSE "found"
\* GET /download/<base>: 404 unless the file exists and is not empty
download(j) ==
    IF mp3[mp3_path_for(j)] < 0 \/ FileSize(mp3_path_for(j)) = 0
    THEN "not_found" ELSE "found"

\* GET /error/<base>: 404 unless the error record exists and is not empty
download_error(j) ==
    IF err[mp3_path_for(j)].msg = "" THEN "not_found" ELSE "found"

\* _recent_jobs: the status text of the row of a job whose metadata parses;
\* tmp_path is <out_path>.tmp, the temporary file of the edge backend
status_of(j) ==
    LET p == mp3_path_for(j)
    IN  IF ErrorPresent(p) THEN "error"
        ELSE IF ArtifactReady(p) THEN "ready"
        ELSE IF "edge" \in tmp[p] THEN "running"
        ELSE "queued"

\* the requests that look a job up: its row of the status list, /download
\* and /error
Queries == {"status", "download", "error"}

\* one such request for base name j: mp3_path_for makes the folder of a path
\* it took from output_rel
Query(q, j) ==
    /\ q \in Queries
    /\ q = "status" => JsonFull(j)
    /\ dirs' = IF JsonFull(j) THEN dirs \cup {FolderOf(mp3_path_for(j))}
                              ELSE dirs
    /\ last' = Quiet
    /\ UNCHANGED <<txt, json, mp3, tagged, err, tmp, opf>>
    /\ UNCHANGED <<cfgVars, frontVars, dispVars, errWritten, interrupted, restarts>>

(* ------------------------------ behaviours ----------------------------- *)
Producer == \E j \in Jobs : build_job(j)

DispatcherStep(d) ==
    \/ Tick(d)
    \/ \E j \in Jobs, ok \in BOOLEAN : Visit(d, j, ok)
    \/ EngineProgress(d)
    \/ \E s \in EngineOutputs : EngineDone(d, s)
    \/ \E exc \in {"timeout", "engine_error"} : EngineFail(d, exc)
    \/ \E o \in FinalizeOutcomes : Finalize(d, o)

\* a single dispatcher process that keeps running
Next ==
    \/ Producer
    \/ DispatcherStep("d1")

Spec == Init /\ [][Next]_vars

\* the polling loop never blocks for good (it sleeps POLL_INTERVAL between
\* ticks and every backend call returns or raises), and a build_job that
\* has created the text file goes on to write it and the metadata file
FairSpec ==
    /\ Init
    /\ [][Next]_vars
    /\ WF_vars(DispatcherStep("d1"))
    /\ \A j \in Jobs : WF_vars(SubmitWriteTxt(j) \/ SubmitWriteJson(j))

\* the dispatcher process may also die from an exception, or be stopped,
\* and be started again
NextRestart ==
    \/ Producer
    \/ DispatcherStep("d1")
    \/ \E j \in Jobs, at \in EscapePoints : LoopEscape("d1", j, at)
    \/ Restart("d1")

RestartSpec == Init /\ [][NextRestart]_vars

(* ------------------- strings, as the front end uses them --------------- *)
\* A string is the sequence of its characters. The characters that occur are
\* the letters, the digits, and the punctuation below; the only white space
\* is the blank.
LF == "\n"
\* the characters str.strip() removes and the class \s matches
Whitespace == {" ", "\t", LF, "\r"}

Lowers ==
    <<"a", "b", "c", "d", "e", "f", "g", "h", "i", "j", "k", "l", "m", "n",
      "o", "p", "q", "r", "s", "t", "u", "v", "w", "x", "y", "z">>
Uppers ==
    <<"A", "B", "C", "D", "E", "F", "G", "H", "I", "J", "K", "L", "M", "N",
      "O", "P", "Q", "R", "S", "T", "U", "V", "W", "X", "Y", "Z">>
Digits == <<"0", "1", "2", "3", "4", "5", "6", "7", "8", "9">>

LowerSet == {Lowers[i] : i \in 1..Len(Lowers)}
UpperSet == {Uppers[i] : i \in 1..Len(Uppers)}
DigitSet == {Digits[i] : i \in 1..Len(Digits)}
UpperOf == [c \in LowerSet |-> Uppers[CHOOSE i \in 1..Len(Lowers) : Lowers[i] = c]]
LowerOf == [c \in UpperSet |-> Lowers[CHOOSE i \in 1..Len(Uppers) : Uppers[i] = c]]
DigitOf == [c \in DigitSet |-> (CHOOSE i \in 1..Len(Digits) : Digits[i] = c) - 1]

IsCased(c) == c \in LowerSet \/ c \in UpperSet
IsDigit(c) == c \in DigitSet
ch_upper(c) == IF c \in LowerSet THEN UpperOf[c] ELSE c
ch_lower(c) == IF c \in UpperSet THEN LowerOf[c] ELSE c

\* the first position from i upwards, and the last position from i downwards,
\* of a character of s that is in cs (in = TRUE) or not in cs (in = FALSE);
\* Len(s) + 1, respectively 0, when there is none
RECURSIVE scan_up(_, _, _, _)
scan_up(s, cs, in, i) ==
    IF i > Len(s) \/ (s[i] \in cs) = in THEN i ELSE scan_up(s, cs, in, i + 1)
RECURSIVE scan_down(_, _, _, _)
scan_down(s, cs, in, i) ==
    IF i < 1 \/ (s[i] \in cs) = in THEN i ELSE scan_down(s, cs, in, i - 1)

\* s.find(c) + 1: the first position of c in s, 0 when c does not occur
IndexOf(c, s) ==
    LET k == scan_up(s, {c}, TRUE, 1) IN IF k > Len(s) THEN 0 ELSE k

\* str.lower()
str_lower(s) == [i \in 1..Len(s) |-> ch_lower(s[i])]

\* str.title(): a cased character is upper-cased after an uncased one (or at
\* the start) and lower-cased after a cased one
str_title(s) ==
    [i \in 1..Len(s) |->
        IF i = 1 \/ ~IsCased(s[i - 1]) THEN ch_upper(s[i]) ELSE ch_lower(s[i])]

\* str.replace(a, b) for single characters a, b
str_replace(s, a, b) == [i \in 1..Len(s) |-> IF s[i] = a THEN b ELSE s[i]]

\* str.strip(cs)
str_strip(s, cs) ==
    SubSeq(s, scan_up(s, cs, FALSE, 1), scan_down(s, cs, FALSE, Len(s)))

\* str.split(sep) for a single character sep
RECURSIVE str_split(_, _)
str_split(s, sep) ==
    LET k == IndexOf(sep, s)
    IN  IF k = 0 THEN <<s>>
        ELSE <<SubSeq(s, 1, k - 1)>> \o str_split(SubSeq(s, k + 1, Len(s)), sep)

\* sep.join(parts)
RECURSIVE str_join(_, _)
str_join(parts, sep) ==
    IF parts = <<>> THEN <<>>
    ELSE IF Len(parts) = 1 THEN parts[1]
    ELSE parts[1] \o sep \o str_join(Tail(parts), sep)

\* [p for p in parts if p]
nonempty(parts) == SelectSeq(parts, LAMBDA p : p # <<>>)

\* s.rsplit(".", 1)[0] if "." in s else s
drop_extension(s) ==
    LET k == scan_down(s, {"."}, TRUE, Len(s))
    IN  IF k = 0 THEN s ELSE SubSeq(s, 1, k - 1)

\* re.match(r"^(.*?)(?:-(\d+))?$", s): group 2 is the run of digits that ends
\* the string when a "-" stands right before it (None, here <<>>, otherwise);
\* group 1 is what precedes that "-"
match_suffix(s) ==
    LET k == scan_down(s, DigitSet, FALSE, Len(s))
    IN  IF k > 0 /\ k < Len(s) /\ s[k] = "-"
        THEN [base_slug |-> SubSeq(s, 1, k - 1),
              digits |-> SubSeq(s, k + 1, Len(s))]
        ELSE [base_slug |-> s, digits |-> <<>>]

\* int(digits)
RECURSIVE str_int(_)
str_int(ds) ==
    IF ds = <<>> THEN 0
    ELSE 10 * str_int(SubSeq(ds, 1, Len(ds) - 1)) + DigitOf[ds[Len(ds)]]

\* str(n), n >= 0
RECURSIVE int_str(_)
int_str(n) ==
    IF n < 10 THEN <<Digits[n + 1]>>
    ELSE int_str(n \div 10) \o <<Digits[(n % 10) + 1]>>

\* f"{n:0wd}": at least w digits, padded with zeros on the left
RECURSIVE zeros(_)
zeros(k) == IF k <= 0 THEN <<>> ELSE <<"0">> \o zeros(k - 1)
fmt_0d(n, w) == LET ds == int_str(n) IN zeros(w - Len(ds)) \o ds

\* re.sub(r"[cls]+", rep, s): every run of characters of cls becomes rep
RECURSIVE sub_runs(_, _, _)
sub_runs(s, cls, rep) ==
    IF s = <<>> THEN <<>>
    ELSE IF s[1] \notin cls THEN <<s[1]>> \o sub_runs(Tail(s), cls, rep)
    ELSE <<rep>>
         \o sub_runs(SubSeq(s, scan_up(s, cls, FALSE, 1), Len(s)), cls, rep)

\* _slug_to_title
slug_to_title(slug) ==
    str_title(str_strip(str_replace(slug, "-", " "), Whitespace))

Untitled == <<"U", "n", "t", "i", "t", "l", "e", "d">>
Unknown == <<"U", "n", "k", "n", "o", "w", "n">>
InvalidChars == {"\\", "/", "<", ">", ":", "\"", "|", "?", "*"}

\* (variant: spaces and dots at the ends are kept)
sanitize_segment_untrimmed(name) ==
    LET replaced == sub_runs(str_strip(name, Whitespace), InvalidChars, "_")
        collapsed == sub_runs(replaced, Whitespace, " ")
    IN  IF collapsed = <<>> THEN Untitled ELSE collapsed
\* _sanitize_segment
sanitize_segment(name) ==
    LET replaced == sub_runs(str_strip(name, Whitespace), InvalidChars, "_")
        trimmed == str_strip(sub_runs(replaced, Whitespace, " "), {" ", "."})
    IN  IF trimmed = <<>> THEN Untitled ELSE trimmed

\* urlparse(url) for scheme://netloc[/path][?query][#fragment]
urlparse(url) ==
    LET rest == SubSeq(url, IndexOf(":", url) + 3, Len(url))
        a == scan_up(rest, {"/", "?", "#"}, TRUE, 1)
        b == scan_up(rest, {"?", "#"}, TRUE, a)
    IN  [netloc |-> SubSeq(rest, 1, a - 1), path |-> SubSeq(rest, a, b - 1)]

\* email.utils.parseaddr(raw)[0] for the two forms that occur: "Name <addr>"
\* gives Name, a value without angle brackets has no display name
parseaddr_name(raw) ==
    IF IndexOf("<", raw) = 0 THEN <<>>
    ELSE str_strip(SubSeq(raw, 1, IndexOf("<", raw) - 1), Whitespace)

\* headers.get(k, "")
Get(headers, k) == IF k \in DOMAIN headers THEN headers[k] ELSE <<>>

\* host.startswith("www.") / host.endswith("nifty.org")

WwwDot == <<"w", "w", "w", ".">>
NiftyOrg == <<"n", "i", "f", "t", "y", ".", "o", "r", "g">>
Nifty == <<"n", "i", "f", "t", "y">>
DotMp3 == <<".", "m", "p", "3">>
startswith(s, p) == Len(s) >= Len(p) /\ SubSeq(s, 1, Len(p)) = p
endswith(s, p) ==
    Len(s) >= Len(p) /\ SubSeq(s, Len(s) - Len(p) + 1, Len(s)) = p
strip_www(host) ==
    IF startswith(host, WwwDot) THEN SubSeq(host, 5, Len(host)) ELSE host

(* ------------------------ output_relpath_for --------------------------- *)
\* (variant: the path is named after the time of the call)
output_relpath_stamped(url, headers) ==
    [rel |-> <<Unknown, int_str(clock)>>, extra |-> <<>>]

\* The result is the pair of the relative path, as the sequence of its
\* segments, and the dict of tag hints, as a function on the keys it has.
output_relpath_for(url, headers) ==
    LET parsed == urlparse(url)
        all_parts == IF parsed.path = <<>> THEN <<>>
                     ELSE str_split(str_strip(parsed.path, {"/"}), "/")
        nonempty_parts == nonempty(all_parts)
        n == Len(nonempty_parts)
        file_part == drop_extension(IF n > 0 THEN nonempty_parts[n]
                                           ELSE parsed.netloc)
        folder_slug == IF n >= 2 THEN nonempty_parts[n - 1] ELSE <<>>
        m == match_suffix(file_part)
        series_title == IF folder_slug # <<>> THEN slug_to_title(folder_slug)
                        ELSE <<>>
        url_title == slug_to_title(m.base_slug)
        raw_from == str_strip(Get(headers, "from"), Whitespace)
        author_name == IF raw_from # <<>>
                       THEN str_strip(parseaddr_name(raw_from), Whitespace)
                       ELSE <<>>
        author_dir == sanitize_segment(IF author_name # <<>> THEN author_name
                                                             ELSE Unknown)
        raw_subject == str_strip(Get(headers, "subject"), Whitespace)
        title == IF raw_subject # <<>> THEN raw_subject ELSE url_title
        title_clean == sanitize_segment(title)
        has_track == m.digits # <<>>
        track_num == str_int(m.digits)
        item_folder == IF has_track /\ track_num # 0
                       THEN fmt_0d(track_num, 3) \o <<" ", "-", " ">>
                            \o title_clean
                       ELSE title_clean
        mp3_name == title_clean \o DotMp3
        host == strip_www(str_lower(parsed.netloc))
        pre_file_depth == IF n > 0 THEN n - 1 ELSE 0
        is_nifty == endswith(host, NiftyOrg)
                    /\ n > 0 /\ nonempty_parts[1] = Nifty
        is_nifty_non_series == is_nifty /\ pre_file_depth = 3
        album == IF series_title # <<>> THEN [k \in {"album"} |-> series_title]
                 ELSE <<>>
        track == IF has_track THEN [k \in {"track"} |-> track_num] ELSE <<>>
    IN  IF is_nifty_non_series
        THEN [rel |-> <<author_dir, item_folder, mp3_name>>, extra |-> <<>>]
        ELSE [rel |-> <<author_dir>>
                      \o (IF series_title # <<>>
                          THEN <<sanitize_segment(series_title)>> ELSE <<>>)
                      \o <<item_folder, mp3_name>>,
              extra |-> album @@ track]

\* Path.as_posix()
as_posix(rel) == str_join(rel, <<"/">>)


(* -------------------------- build_job: base_name ----------------------- *)
\* datetime.now().strftime("(%m-%d-%y@%H-%M)"): the clock counts half
\* minutes of one hour of one day, so the stamp varies in its minute only
DayAndHour == <<"1", "1", "-", "0", "3", "-", "2", "6", "@", "1", "3", "-">>
strftime(t) == <<"(">> \o DayAndHour \o fmt_0d(t \div 2, 2) \o <<")">>

\* re.sub(r"[^a-z0-9 _\-().@]", "_", s)
SafeChars == LowerSet \cup DigitSet \cup {" ", "_", "-", "(", ")", ".", "@"}
sanitize_base(s) == [i \in 1..Len(s) |-> IF s[i] \in SafeChars THEN s[i] ELSE "_"]

\* build_job, steps 1 to 6: the base name of a job created at time t
base_name_for(url, t) ==
    LET parsed == urlparse(url)
        host == str_replace(strip_www(str_lower(parsed.netloc)), ".", "-")
        path == str_strip(parsed.path, {"/"})
        split == IF path = <<>> THEN <<>> ELSE str_split(path, "/")
        parts == IF split = <<>> THEN <<>>
                 ELSE SubSeq(split, 1, Len(split) - 1)
                      \o <<drop_extension(split[Len(split)])>>
        combined == IF parts # <<>> THEN str_join(<<host>> \o parts, <<"-">>)
                    ELSE host
    IN  sanitize_base(str_lower(combined) \o <<" ">> \o strftime(t))

(* ------------------------ locators and headers ------------------------- *)
Https == <<"h", "t", "t", "p", "s", ":", "/", "/">>
ExampleCom == <<"e", "x", "a", "m", "p", "l", "e", ".", "c", "o", "m">>
WwwNiftyOrg ==
    <<"w", "w", "w", ".", "n", "i", "f", "t", "y", ".", "o", "r", "g">>
DotHtml == <<".", "h", "t", "m", "l">>
Fiction == <<"f", "i", "c", "t", "i", "o", "n">>
Mybook == <<"m", "y", "b", "o", "o", "k">>
Chapter == <<"c", "h", "a", "p", "t", "e", "r">>
Story == <<"s", "t", "o", "r", "y">>
Gay == <<"g", "a", "y">>
College == <<"c", "o", "l", "l", "e", "g", "e">>
JaneDoe == <<"J", "a", "n", "e", " ", "D", "o", "e">>
JaneDoeAddr ==
    <<"J", "a", "n", "e", " ", "D", "o", "e", " ", "<", "j", "a", "n", "e",
      "@", "x", ".", "o", "r", "g", ">">>
Chapter1 == <<"C", "h", "a", "p", "t", "e", "r", " ", "1">>
SegA == <<"a">>
SegB == <<"b">>
SegC == <<"c">>
N003 == <<"0", "0", "3">>
N2 == <<"2">>
N0 == <<"0">>
N1000 == <<"1", "0", "0", "0">>

\* A locator is given by its host, the folders of its path (an empty folder
\* stands for a doubled slash), the slug of its last segment and the digits
\* of that segment's numeric suffix (<<>>: no suffix); a locator with an
\* empty slug has no path at all.
Loc(host, folders, slug, suffix) ==
    [host |-> host, folders |-> folders, slug |-> slug, suffix |-> suffix]

UrlText(loc) ==
    IF loc.slug = <<>> THEN Https \o loc.host
    ELSE Https \o loc.host \o <<"/">>
         \o (IF loc.folders = <<>> THEN <<>>
             ELSE str_join(loc.folders, <<"/">>) \o <<"/">>)
         \o loc.slug
         \o (IF loc.suffix = <<>> THEN <<>> ELSE <<"-">> \o loc.suffix)
         \o DotHtml

LocChapter003 == Loc(ExampleCom, <<Fiction, Mybook>>, Chapter, N003)
LocDepth3 == Loc(ExampleCom, <<SegA, SegB, SegC>>, Story, <<>>)
LocNiftyStory == Loc(WwwNiftyOrg, <<Nifty, Gay, College>>, Story, <<>>)
LocNiftyStory2 == Loc(WwwNiftyOrg, <<Nifty, Gay, College>>, Story, N2)
LocNiftySlashes == Loc(WwwNiftyOrg, <<Nifty, Gay, College, <<>>>>, Story, <<>>)
LocNiftySeries == Loc(WwwNiftyOrg, <<Nifty, Gay, College, Mybook>>, Story, N2)
LocStory0 == Loc(ExampleCom, <<Mybook>>, Story, N0)
LocStory1000 == Loc(ExampleCom, <<Mybook>>, Story, N1000)
LocSeries == Loc(ExampleCom, <<Mybook>>, Story, <<>>)
LocTop == Loc(ExampleCom, <<>>, Story, <<>>)
LocBare == Loc(ExampleCom, <<>>, <<>>, <<>>)

Locators ==
    {LocChapter003, LocDepth3, LocNiftyStory, LocNiftyStory2, LocNiftySlashes,
     LocNiftySeries, LocStory0, LocStory1000, LocSeries, LocTop, LocBare}

NoHeaders == <<>>
HeadersBare == [k \in {"from", "subject"} |->
                   IF k = "from" THEN JaneDoe ELSE Chapter1]
HeadersAddr == [k \in {"from", "subject"} |->
                   IF k = "from" THEN JaneDoeAddr ELSE Chapter1]

\* the calls of output_relpath_for that are tried
DeriverInputs ==
    {[loc |-> l, headers |-> NoHeaders] : l \in Locators}
    \cup {[loc |-> l, headers |-> h] :
             l \in {LocChapter003, LocNiftyStory}, h \in {HeadersBare, HeadersAddr}}

\* header values and a locator with characters that no path segment may keep
FromSlash ==
    <<"a", "/", "b", " ", "<", "j", "@", "x", ".", "o", "r", "g", ">">>
FromDots == <<".", ".", " ", "<", "j", "@", "x", ".", "o", "r", "g", ">">>
SubjectMessy == <<".", " ", "a", " ", " ", "b", ":", "c", " ", ".">>
SubjectDots == <<".", ".">>
SubjectTabs == <<"a", "\t", LF, "b", "?", "*">>
HeadersMessy == [k \in {"from", "subject"} |->
                    IF k = "from" THEN FromSlash ELSE SubjectMessy]
HeadersDots == [k \in {"from", "subject"} |->
                   IF k = "from" THEN FromDots ELSE SubjectDots]
HeadersTabs == [k \in {"subject"} |-> SubjectTabs]
LocDots == Loc(ExampleCom, <<SubjectDots>>, <<".">>, <<>>)
SegmentInputs ==
    [loc : {LocChapter003, LocDots},
     headers : {NoHeaders, HeadersMessy, HeadersDots, HeadersTabs}]

\* the calls of output_relpath_for that are tried between calls of build_job
RetryInputs ==
    [loc : {LocChapter003}, headers : {NoHeaders, HeadersAddr}]

\* the calls of build_job that are tried
Texts == {"text1", "text2"}
SubmitInputs == [loc : {LocChapter003}, headers : {HeadersAddr}, text : Texts]

(* ----------------------- calls of the front end ------------------------ *)
pipelineVars == <<fsVars, cfgVars, dispVars, histVars>>

\* of the calls made so far, the first and the latest are kept
Remember(calls, c) == IF Len(calls) < 2 THEN Append(calls, c) ELSE <<calls[1], c>>

\* time passes
Tock ==
    /\ clock < MaxClock
    /\ clock' = clock + 1
    /\ UNCHANGED <<derives, submits, incoming, pipelineVars>>

\* one call output_relpath_for(url, headers), at some time and with some
\* files in incoming/
Derive(i) ==
    LET url == UrlText(i.loc)
    IN  /\ derives' = Remember(derives,
                         [loc |-> i.loc, url |-> url, headers |-> i.headers,
                          at |-> clock, stored |-> DOMAIN incoming,
                          out |-> output_relpath_for(url, i.headers)])
        /\ UNCHANGED <<clock, submits, incoming, pipelineVars>>

\* the two files build_job writes under base name b at time t: the body
\* (header lines, then the text) and the metadata
JobFiles(b, url, headers, text, t) ==
    LET derived == output_relpath_for(url, headers)
    IN  [txt |-> [hdr_lines |-> headers, text |-> text],
         json |-> [url |-> url, created_ts |-> t,
                   text_file |-> b \o <<".", "t", "x", "t">>,
                   from |-> parseaddr_name(str_strip(Get(headers, "from"),
                                                     Whitespace)),
                   subject |-> str_strip(Get(headers, "subject"), Whitespace),
                   output_rel |-> as_posix(derived.rel),
                   extra |-> derived.extra]]

\* write_text: the file is created, or replaced when it exists
WriteFiles(store, b, files) ==
    [x \in DOMAIN store \cup {b} |-> IF x = b THEN files ELSE store[x]]

\* one call build_job(url, text, headers): both files are written under the
\* base name, whatever is there already
build_job_call(url, headers, text) ==
    LET b == base_name_for(url, clock)
    IN  /\ incoming' = WriteFiles(incoming, b,
                                  JobFiles(b, url, headers, text, clock))
        /\ submits' = Remember(submits,
                         [url |-> url, headers |-> headers, text |-> text,
                          at |-> clock, base_name |-> b])
        /\ UNCHANGED <<clock, derives, pipelineVars>>

Submit(i) == build_job_call(UrlText(i.loc), i.headers, i.text)

\* POST /submit with form fields u, text and the header fields: the handler
\* calls build_job with what it was sent
MAX_TEXTAREA_BYTES == 2000000
SAFE_SCHEMES == {<<"h", "t", "t", "p">>, <<"h", "t", "t", "p", "s">>}
FtpLocator ==
    <<"f", "t", "p", ":", "/", "/", "e", "x", "a", "m", "p", "l", "e", ".",
      "c", "o", "m", "/", "s", "t", "o", "r", "y", ".", "h", "t", "m", "l">>
OversizeText == "oversize"

\* len(text.encode("utf-8")); the text OversizeText stands for one of
\* MAX_TEXTAREA_BYTES + 1 bytes
TextBytes(text) ==
    IF text = OversizeText THEN MAX_TEXTAREA_BYTES + 1 ELSE Len(text)

\* urlparse(u).scheme
url_scheme(u) == str_lower(SubSeq(u, 1, IndexOf(":", u) - 1))

\* the requests POST /submit that are tried
FormInputs ==
    [u : {UrlText(LocTop), FtpLocator}, text : {"text1", OversizeText},
     headers : {NoHeaders}]

submit(i) == build_job_call(i.u, i.headers, i.text)

\* the front end alone: the dispatcher is not started, the configuration is
\* fixed
FrontInit == Init /\ min_bytes = MaxSize /\ selected = "edge"

NextDeriver ==
    \/ Tock
    \/ \E i \in DeriverInputs : Derive(i)

DeriverSpec == FrontInit /\ [][NextDeriver]_vars

NextFront ==
    \/ Tock
    \/ \E i \in RetryInputs : Derive(i)
    \/ \E i \in SubmitInputs : Submit(i)

FrontSpec == FrontInit /\ [][NextFront]_vars

NextSubmit ==
    \/ Tock
    \/ \E i \in FormInputs : submit(i)

SubmitSpec == FrontInit /\ [][NextSubmit]_vars

\* two dispatcher processes on one jobs/ directory, and one submitted job
NextTwo ==
    \/ build_job("j1")
    \/ DispatcherStep("d1")
    \/ Start("d2")
    \/ DispatcherStep("d2")

TwoSpec == FrontInit /\ [][NextTwo]_vars

\* calls into the backend registry while dependencies come and go
NextRegistry ==
    \/ \E f \in SUBSET BackendIds : all_backends(f)
    \/ \E f \in SUBSET BackendIds : available_backends(f)
    \/ \E f \in SUBSET BackendIds, id \in BackendIds \cup {"", "nosuch"} :
          get_backend(id, f)
    \/ \E be \in BackendIds : DependencyChange(be)

RegistrySpec == FrontInit /\ [][NextRegistry]_vars

\* one of the single-engine watchers on the jobs/ directory
NextWatcher ==
    \/ Producer
    \/ \E w \in WatcherKinds : StartWatcher(w)
    \/ WatcherTick
    \/ \E j \in Jobs, s \in EngineOutputs, o \in FinalizeOutcomes :
          WatcherJob(j, s, o)

WatcherSpec == FrontInit /\ [][NextWatcher]_vars

(* ------------- the job text file, written and read back --------------- *)
FromName == <<"F", "r", "o", "m">>
SubjectName == <<"S", "u", "b", "j", "e", "c", "t">>
DateName == <<"D", "a", "t", "e">>

\* build_job: the characters written to <base>.txt: a line per header that
\* is not blank, an empty line, and the text; the text alone when no header
\* line was made
job_text(headers, text) ==
    LET line(name, k) ==
            LET v == str_strip(Get(headers, k), Whitespace)
            IN  IF v = <<>> THEN <<>> ELSE <<name \o <<":", " ">> \o v>>
        hdr_lines == line(FromName, "from") \o line(SubjectName, "subject")
                     \o line(DateName, "date")
    IN  IF hdr_lines = <<>> THEN text
        ELSE str_join(hdr_lines, <<LF>>) \o <<LF, LF>> \o text

\* raw.replace("\r\n", "\n")
RECURSIVE crlf_to_lf(_)
crlf_to_lf(s) ==
    IF s = <<>> THEN <<>>
    ELSE IF Len(s) >= 2 /\ s[1] = "\r" /\ s[2] = LF
    THEN crlf_to_lf(Tail(s))
    ELSE <<s[1]>> \o crlf_to_lf(Tail(s))

\* raw.find("\n\n") + 1
FindBlankLine(raw) ==
    LET at == {i \in 1..(Len(raw) - 1) : raw[i] = LF /\ raw[i + 1] = LF}
    IN  IF at = {} THEN 0 ELSE CHOOSE i \in at : \A k \in at : i <= k

\* Parser().parsestr(header_blob): the header lines are the lines up to
\* the first one that is not of the form "name: value"
IsHeaderLine(l) ==
    LET k == IndexOf(":", l)
    IN  k > 1 /\ \A i \in 1..(k - 1) : l[i] \notin Whitespace
HeaderLines(blob) ==
    LET lines == str_split(blob, LF)
        bad == {i \in 1..Len(lines) : ~IsHeaderLine(lines[i])}
        n == IF bad = {} THEN Len(lines)
             ELSE (CHOOSE i \in bad : \A k \in bad : i <= k) - 1
    IN  SubSeq(lines, 1, n)
\* headers.get(name, "").strip()
HeaderValue(lines, name) ==
    LET hit == {i \in 1..Len(lines) :
                   str_lower(SubSeq(lines[i], 1, IndexOf(":", lines[i]) - 1))
                   = str_lower(name)}
    IN  IF hit = {} THEN <<>>
        ELSE LET l == lines[CHOOSE i \in hit : \A k \in hit : i <= k]
             IN  str_strip(SubSeq(l, IndexOf(":", l) + 1, Len(l)), Whitespace)

\* parse_job_file: what precedes the first empty line is parsed as headers,
\* what follows it is the body; without an empty line all of it is the body
parse_job_file(contents) ==
    LET raw == crlf_to_lf(contents)
        k == FindBlankLine(raw)
        header_blob == IF k = 0 THEN <<>> ELSE SubSeq(raw, 1, k - 1)
        body == IF k = 0 THEN raw ELSE SubSeq(raw, k + 2, Len(raw))
        lines == HeaderLines(header_blob)
    IN  [from |-> str_strip(parseaddr_name(HeaderValue(lines, FromName)),
                            Whitespace),
         subject |-> HeaderValue(lines, SubjectName),
         body |-> str_strip(body, Whitespace)]

\* texts and header dicts that are submitted
TextPlain == <<"a", "b">>
TextParagraphs == <<"a", LF, LF, "b">>
TextPadded == <<" ", "a", LF>>
TextBlank == <<" ">>
HandoverTexts == {TextPlain, TextParagraphs, TextPadded, TextBlank}
HeadersSubject == [k \in {"subject"} |-> Chapter1]
HandoverInputs ==
    [headers : {NoHeaders, HeadersAddr, HeadersBare, HeadersSubject},
     text : HandoverTexts]

\* a composer value: the engine and the voice it names ("": none)
NoComposer == [engine |-> "", voice |-> ""]
\* display_name of a backend ("Microsoft Edge TTS", "Piper TTS", "Local TTS
\* (pyttsx3)"): it names the engine
DisplayName(be) == [engine |-> be, voice |-> ""]
\* voices a backend may have used for a job
Voices == {"default", "amy"}

\* the composer hint of synthesize_to_mp3: piper and pyttsx3 put
\* "<engine> TTS - <voice>" into meta when meta has no composer, edge puts
\* nothing there
backend_composer(be, voice, composer) ==
    IF be # "edge" /\ composer = NoComposer
    THEN [engine |-> be, voice |-> voice] ELSE composer

NotRead == [outcome |-> "queued", from |-> <<>>, subject |-> <<>>, body |-> <<>>,
            be |-> "", composer |-> NoComposer, embedded |-> NoComposer]

\* build_job(url, text, headers) writes the text file
WriteJobText(i) ==
    /\ i \notin DOMAIN handed
    /\ Cardinality(DOMAIN handed) < MaxHanded
    /\ handed' = [x \in DOMAIN handed \cup {i} |->
                     IF x = i THEN [raw |-> job_text(i.headers, i.text),
                                    read |-> NotRead]
                              ELSE handed[x]]
    /\ UNCHANGED <<min_bytes, selected, regVars, watcher>>
    /\ UNCHANGED <<fsVars, dispVars, histVars, frontVars>>

\* the dispatcher's loop body from read_text to the synthesize_to_mp3 call,
\* for the file of i: what it does with the job, and the body and the
\* composer in meta that it passes on; be is the backend picked and ok is
\* what its available() returns
ReadJobText(i, be, ok) ==
    /\ i \in DOMAIN handed
    /\ handed[i].read = NotRead
    /\ LET raw == handed[i].raw
           text == str_strip(raw, Whitespace)
           parsed == parse_job_file(raw)
           outcome == IF text = <<>> THEN "error_empty"
                      ELSE IF ~ok THEN "error_unavailable"
                      ELSE "synthesize"
       IN  handed' = [handed EXCEPT ![i].read =
                         IF text = <<>> THEN [NotRead EXCEPT !.outcome = outcome]
                         ELSE [NotRead EXCEPT
                                 !.outcome = outcome,
                                 !.from = parsed.from,
                                 !.subject = parsed.subject,
                                 !.body = parsed.body,
                                 !.be = IF ok THEN be ELSE "",
                                 !.composer = IF ok THEN DisplayName(be)
                                                    ELSE NoComposer]]
    /\ UNCHANGED <<min_bytes, selected, regVars, watcher>>
    /\ UNCHANGED <<fsVars, dispVars, histVars, frontVars>>

NextSegment ==
    \/ Tock
    \/ \E i \in SegmentInputs : Derive(i)

SegmentSpec == FrontInit /\ [][NextSegment]_vars

\* synthesize_to_mp3 returns for the job of i, having used voice, and
\* finalize_output embeds the composer it finds in meta
TagJobText(i, voice) ==
    /\ i \in DOMAIN handed
    /\ handed[i].read.outcome = "synthesize"
    /\ handed[i].read.embedded = NoComposer
    /\ handed' = [handed EXCEPT ![i].read.embedded =
                     backend_composer(handed[i].read.be, voice,
                                      handed[i].read.composer)]
    /\ UNCHANGED <<min_bytes, selected, regVars, watcher>>
    /\ UNCHANGED <<fsVars, dispVars, histVars, frontVars>>

NextHandover ==
    \/ \E i \in HandoverInputs : WriteJobText(i)
    \/ \E i \in HandoverInputs, be \in BackendIds, ok \in BOOLEAN :
          ReadJobText(i, be, ok)
    \/ \E i \in HandoverInputs, voice \in Voices : TagJobText(i, voice)

HandoverSpec == FrontInit /\ [][NextHandover]_vars

\* the dispatcher, and the web application answering status requests
NextStatus ==
    \/ Producer
    \/ DispatcherStep("d1")
    \/ \E q \in Queries, j \in Jobs : Query(q, j)

StatusSpec == Init /\ [][NextStatus]_vars

(* ------------------------------ properties ----------------------------- *)
\* C1: for every submitted job, never both the final artifact and the error
\* record exist with nonzero size
C1_NeverReadyAndErrored ==
    \A j \in Jobs : Submitted(j) => ~(is_ready(j) /\ is_errored(j))

\* C2: under dispatcher steps ready and error are absorbing: a ready job
\* stays ready and does not become errored, an errored job stays errored and
\* does not become ready
C2_TerminalStatesAbsorbing ==
    [][UNCHANGED <<txt, json>> =>
         \A j \in Jobs :
            /\ is_ready(j) => (is_ready(j)' /\ ~is_errored(j)')
            /\ is_errored(j) => (is_errored(j)' /\ ~is_ready(j)')]_vars

\* C3: once a base name is in a dispatcher's seen set, no later step of that
\* process reads its text or calls synthesis for it
C3_ClaimedAtMostOncePerProcess ==
    [][\A d \in Disps, j \in Jobs :
          (j \in seen[d] /\ last'.by = d) => last'.claimed # j]_vars

\* C3 witness: a listed job that only the seen set keeps from being claimed
\* again (its artifact and error paths are free)
C3_Witness ==
    \E j \in Jobs :
        /\ j \in seen["d1"]
        /\ j \in todo["d1"]
        /\ ~is_ready(j)
        /\ ~is_errored(j)

\* C4: every base name whose text file exists is eventually claimed
C4_EveryJobEventuallyClaimed ==
    \A j \in Jobs : (<>(txt[j] # "absent")) => <>(last.claimed = j)

\* C5: every submitted job is eventually ready or errored
C5_EventuallyTerminal ==
    \A j \in Jobs : Submitted(j) ~> (is_ready(j) \/ is_errored(j))

\* C6: once an error record has been written for a job, synthesis is never
\* invoked for it again, restarts included
C6_NoRetryAfterError ==
    [][\A j \in errWritten : ~(last'.claimed = j /\ last'.synth)]_vars

\* C7: a job whose processing was cut short by a process stop before its
\* artifact or error record existed is claimed again by the new process the
\* first time that process reaches it in a listing
C7_RestartReclaims ==
    [][\A j \in interrupted, ok \in BOOLEAN :
          Visit("d1", j, ok)
              => (last'.claimed = j /\ last'.again /\ j \in seen'["d1"])]_vars

\* C8: a claimed job whose backend is not registered or reports unavailable
\* gets no synthesis call and no artifact and is errored right after the
\* step; the error record names the requested id (the backend is picked
\* only for a job whose text is not empty)
C8_UnavailableBackendFails ==
    [][\A j \in Jobs, ok \in BOOLEAN :
          (/\ Visit("d1", j, ok)
           /\ j \notin seen["d1"] /\ ~is_ready(j) /\ ~is_errored(j)
           /\ ~(BackendFor(j) \in BackendIds /\ ok))
          => /\ txt[j] = "full" =>
                  err'[OutPath(j)] = [msg |-> "Requested backend is not available",
                                      be |-> BackendFor(j)]
             /\ last'.claimed = j /\ ~last'.synth
             /\ pc'["d1"] = "poll"
             /\ mp3' = mp3 /\ tmp' = tmp
             /\ is_errored(j)' /\ ~is_ready(j)']_vars

\* C8 witness: the last step claimed a job and failed it for its backend
C8_Witness ==
    /\ last.claimed # NoJob
    /\ ~last.synth
    /\ err[OutPath(last.claimed)].msg = "Requested backend is not available"
    /\ mp3[OutPath(last.claimed)] = -1

\* C9: when the engine's MP3 is smaller than the threshold, the backend
\* raises, neither its temporary file nor the destination remains and the
\* error record is written
C9_TooSmallRemovedAndErrored ==
    [][\A d \in Disps, s \in Sizes :
          (EngineDone(d, s) /\ s < min_bytes)
          => /\ pc'[d] = "poll"
             /\ err'[curOut[d]].msg # ""
             /\ TempOf(curBe[d]) \notin tmp'[curOut[d]]
             /\ mp3'[curOut[d]] = -1]_vars

\* C10: after a timeout or engine failure has been handled the job is
\* errored and neither the artifact nor the backend's temporary file exists
C10_FailureLeavesNoFile ==
    [][\A d \in Disps, exc \in {"timeout", "engine_error"} :
          EngineFail(d, exc)
          => /\ err'[curOut[d]].msg # ""
             /\ mp3'[curOut[d]] = -1
             /\ TempOf(curBe[d]) \notin tmp'[curOut[d]]]_vars

\* C11: no exception raised while a listed job is handled ends the polling
\* loop: the dispatcher process never dies
C11_NoExceptionEscapes ==
    \A d \in Disps : pc[d] # "dead"

\* C12: when a finalization step raises after a successful synthesis, the
\* artifact is kept, the job is ready and no error record is written
C12_FinalizeFailureKeepsReady ==
    [][\A d \in Disps, o \in FinalizeOutcomes \ {"ok"} :
          Finalize(d, o)
          => /\ mp3'[curOut[d]] = mp3[curOut[d]]
             /\ mp3'[curOut[d]] >= 0
             /\ err'[curOut[d]].msg = ""
             /\ errWritten' = errWritten]_vars

\* C13: whenever the dispatcher claims a listed base name, its text file and
\* its metadata file are both completely written
C13_NeverHalfWritten ==
    [][\A j \in Jobs, ok \in BOOLEAN :
          (Visit("d1", j, ok) /\ ~ShouldSkip("d1", j))
          => (txt[j] = "full" /\ JsonFull(j))]_vars

\* C14: any two distinct calls of build_job return different base names,
\* also for the same locator at any two times
C14_BaseNameUnique ==
    Len(submits) = 2 => submits[1].base_name # submits[2].base_name

\* C15: once build_job has written a job's text file and metadata file, no
\* later operation changes the content of either
C15_JobInputsImmutable ==
    [][\A b \in DOMAIN incoming :
          b \in DOMAIN incoming' /\ incoming'[b] = incoming[b]]_vars

C17Locator ==
    <<"h", "t", "t", "p", "s", ":", "/", "/", "e", "x", "a", "m", "p", "l",
      "e", ".", "c", "o", "m", "/", "f", "i", "c", "t", "i", "o", "n", "/",
      "m", "y", "b", "o", "o", "k", "/", "c", "h", "a", "p", "t", "e", "r",
      "-", "0", "0", "3", ".", "h", "t", "m", "l">>
C17Expected ==
    <<"J", "a", "n", "e", " ", "D", "o", "e", "/", "m", "y", "b", "o", "o",
      "k", "/", "0", "0", "3", " ", "-", " ", "C", "h", "a", "p", "t", "e",
      "r", " ", "1", "/", "C", "h", "a", "p", "t", "e", "r", " ", "1", ".",
      "m", "p", "3">>

\* C17: for the locator https://example.com/fiction/mybook/chapter-003.html
\* with author "Jane Doe" and title "Chapter 1" the derived output_rel is
\* "Jane Doe/mybook/003 - Chapter 1/Chapter 1.mp3"
C17_SeriesExample ==
    \A a \in 1..Len(derives) :
        (/\ derives[a].url = C17Locator
         /\ derives[a].headers \in {HeadersBare, HeadersAddr})
        => as_posix(derives[a].out.rel) = C17Expected

\* the number of folder levels before the final segment of a locator
FolderLevels(loc) == Len(SelectSeq(loc.folders, LAMBDA f : f # <<>>))

\* C18: a locator with exactly 3 folder levels before its final segment gets
\* no series folder (Author/Item/Title.mp3) and no album hint; every other
\* locator with a parent path segment gets the series folder
C18_NonSeriesAtDepthThree ==
    \A a \in 1..Len(derives) :
        /\ FolderLevels(derives[a].loc) = 3
           => /\ Len(derives[a].out.rel) = 3
              /\ "album" \notin DOMAIN derives[a].out.extra
        /\ (FolderLevels(derives[a].loc) >= 1 /\ FolderLevels(derives[a].loc) # 3)
           => Len(derives[a].out.rel) = 4

\* the item folder of a derived path, and its title (the file name without
\* ".mp3")
ItemFolderOf(rel) == rel[Len(rel) - 1]
TitleOf(rel) == SubSeq(rel[Len(rel)], 1, Len(rel[Len(rel)]) - Len(DotMp3))

\* C19: with a numeric suffix -N on the final segment the item folder is N
\* zero-padded to 3 digits, " - " and the title, and the track hint is N;
\* without a suffix the item folder is the title and there is no track hint
C19_TrackFolderAndHint ==
    \A a \in 1..Len(derives) :
        LET loc == derives[a].loc
            rel == derives[a].out.rel
            extra == derives[a].out.extra
        IN  /\ loc.suffix # <<>>
               => /\ ItemFolderOf(rel)
                     = fmt_0d(str_int(loc.suffix), 3) \o <<" ", "-", " ">>
                       \o TitleOf(rel)
                  /\ "track" \in DOMAIN extra
                  /\ extra.track = str_int(loc.suffix)
            /\ loc.suffix = <<>>
               => /\ ItemFolderOf(rel) = TitleOf(rel)
                  /\ "track" \notin DOMAIN extra

\* C20: an existing metadata.opf is never changed, and a finalize_output run
\* on a folder that has none creates it
C20_OpfCreatedOnceNeverOverwritten ==
    [][/\ \A f \in Folders : opf[f] # NoOpf => opf'[f] = opf[f]
       /\ \A d \in Disps, o \in FinalizeOutcomes :
             Finalize(d, o) => opf'[FolderOf(curOut[d])] # NoOpf]_vars

\* C21: the status requests (status list, /download, /error) create, modify
\* or delete no file and no directory in incoming/ or outgoing/
C21_QueriesReadOnly ==
    [][\A q \in Queries, j \in Jobs : Query(q, j) => UNCHANGED fsVars]_vars

\* C27: /download answers with the file exactly when the file at the path of
\* the job's stored output_rel exists and is not empty, /error with the error
\* record exactly when that path's error record exists and is not empty
C27_FetchExactlyWhenPresent ==
    [][\A j \in Jobs :
          LET p == IF json[j].st = "full" THEN RelPath(json[j].output_rel)
                                          ELSE BasePath(j)
          IN  /\ Query("download", j)
                 => (download(j) = "found" <=> (mp3[p] >= 0 /\ FileSize(p) > 0))
              /\ Query("error", j)
                 => (download_error(j) = "found" <=> err[p] # NoErr)]_vars

C27_Witness ==
    \E j, k \in Jobs :
        /\ json[j].st = "full" /\ download(j) = "found"
        /\ json[k].st = "full" /\ download_error(k) = "found"
        /\ \E i \in Jobs : mp3[mp3_path_for(i)] = 0 /\ download(i) = "not_found"

\* C22: a POST /submit whose text is larger than the maximum text size, or
\* whose locator is not an http or https URL, writes neither a text file nor
\* a metadata file to incoming/
C22_BadInputWritesNothing ==
    [][\A i \in FormInputs :
          (/\ submit(i)
           /\ \/ TextBytes(i.text) > MAX_TEXTAREA_BYTES
              \/ url_scheme(i.u) \notin SAFE_SCHEMES)
          => incoming' = incoming]_vars

\* C23: two dispatcher processes on one job store do not exclude each other:
\* whatever the other process is doing with a base name, a process that
\* visits it while there is neither artifact nor error record and that has
\* not claimed it itself claims it, and calls synthesis when the text is
\* not empty and the backend is usable; both processes get to synthesize
\* the same base name at the same time (the witness)
C23_NoMutualExclusion ==
    [][\A d \in Disps, j \in Jobs, ok \in BOOLEAN :
          (/\ Visit(d, j, ok)
           /\ j \notin seen[d]
           /\ ~ArtifactReady(OutPath(j))
           /\ ~ErrorPresent(OutPath(j)))
          => /\ j \in seen'[d]
             /\ (txt[j] = "full" /\ BackendUsable(BackendFor(j), ok))
                => (pc'[d] = "synth" /\ cur'[d] = j)]_vars

C23_Witness ==
    /\ pc["d1"] = "synth"
    /\ pc["d2"] = "synth"
    /\ cur["d1"] = cur["d2"]
    /\ cur["d1"] \in Jobs

\* C24: the backend used for a claimed job with text is the one its metadata
\* document names, when it names one, and the configured default otherwise;
\* when that backend is not registered or not available the job gets an
\* error record naming it and no synthesis is started (no other backend is
\* tried)
C24_BackendSelection ==
    [][\A j \in Jobs, ok \in BOOLEAN :
          (Visit("d1", j, ok) /\ ~ShouldSkip("d1", j) /\ txt[j] = "full")
          => LET hint == IF json[j].st = "full" THEN json[j].backend ELSE ""
                 be == IF hint # "" THEN hint ELSE selected
                 p == IF json[j].st = "full" THEN RelPath(json[j].output_rel)
                                             ELSE BasePath(j)
             IN  IF be \in BackendIds /\ ok
                 THEN /\ pc'["d1"] = "synth"
                      /\ cur'["d1"] = j
                      /\ curBe'["d1"] = be
                      /\ err' = err
                 ELSE /\ pc'["d1"] = "poll"
                      /\ curBe' = curBe
                      /\ err'[p] = ErrUnavailable(be)]_vars

\* a job naming piper failed for want of piper although the default backend
\* is a registered one
C24_Witness ==
    \E j \in Jobs :
        /\ json[j].st = "full" /\ json[j].backend = "piper"
        /\ selected \in BackendIds
        /\ j \in errWritten
        /\ err[RelPath(json[j].output_rel)] = ErrUnavailable("piper")

\* C25: the registry is populated once (a populated registry never changes),
\* a call that populates it while the modules in f fail to import registers
\* every other backend, and every call returns without an error: all_backends
\* lists the registered ones and get_backend finds exactly those
C25_RegistryIsolation ==
    [][/\ registry # NoRegistry => registry' = registry
       /\ reply'.kind # "raise"
       /\ \A f \in SUBSET BackendIds :
             (all_backends(f) /\ registry = NoRegistry)
             => (registry' = BackendIds \ f /\ reply'.value = BackendIds \ f)
       /\ \A f \in SUBSET BackendIds, id \in BackendIds :
             (get_backend(id, f) /\ registry = NoRegistry)
             => (reply'.value = IF id \in f THEN {} ELSE {id})]_vars

\* the registry was populated while one module failed and holds the other two
C25_Witness ==
    /\ registry # NoRegistry
    /\ Cardinality(registry) = 2
    /\ reply = [kind |-> "all", value |-> registry]

\* C26: available() of every registered backend tells whether the backend's
\* external dependency is present at the time of the call
C26_AvailabilityFresh ==
    registry # NoRegistry
    => \A be \in registry : available(be, imported, deps) <=> be \in deps

\* C28: once the artifact of a path exists, no step changes the file at that
\* path: neither its audio nor its ID3 header
C28_ArtifactNeverRewritten ==
    [][\A p \in Paths :
          mp3[p] >= 0 => /\ mp3'[p] = mp3[p]
                         /\ (p \in tagged') <=> (p \in tagged)]_vars

\* C29: the file at an artifact path is never smaller than the minimum byte
\* threshold, and whenever synthesize_to_mp3 returns normally the destination
\* exists and the byte count it returns is the size of the file there
C29_ArtifactNotBelowThreshold ==
    /\ [](\A p \in Paths : mp3[p] >= 0 => mp3[p] >= min_bytes)
    /\ [][\A s \in EngineOutputs :
             (EngineDone("d1", s) /\ pc'["d1"] = "finalize")
             => LET p == curOut["d1"]
                    size == IF p \in tagged' THEN mp3'[p] + 1 ELSE mp3'[p]
                IN  /\ mp3'[p] >= 0
                    /\ ReturnedBytes(p, s) = size
                    /\ size >= min_bytes]_vars

\* a backend has just renamed a temporary MP3 that is as large as a threshold
\* above zero, and another run ended with an error record for a smaller one
C29_Witness ==
    /\ min_bytes > 0
    /\ pc["d1"] = "finalize"
    /\ mp3[curOut["d1"]] = min_bytes
    /\ \E p \in Paths : err[p] = ErrSynth(curBe["d1"]) /\ mp3[p] < 0

\* C30: every error record a watcher writes for a job is written next to the
\* job's artifact location (the one derived from output_rel when the job has
\* one), where the skip check and err_path_for look for it
C30_ErrorRecordAtSidecar ==
    [][\A j \in Jobs, s \in EngineOutputs, o \in FinalizeOutcomes :
          WatcherJob(j, s, o)
          => \A p \in Paths :
                (err'[p] # err[p] /\ err'[p] # NoErr) => p = OutPath(j)]_vars

\* C31: a job listed by the status reporter is reported running while a
\* dispatcher is synthesizing it (the backend it chose is at work on its
\* temporary file for the artifact path the reporter looks at), whichever
\* backend that is
C31_RunningWhileSynthesizing ==
    \A j \in Jobs, d \in Disps :
        (/\ JsonFull(j)
         /\ pc[d] = "synth" /\ cur[d] = j
         /\ curOut[d] = mp3_path_for(j)
         /\ TempOf(curBe[d]) \in tmp[curOut[d]])
        => status_of(j) = "running"

\* C34: for every job text file build_job wrote, the body the dispatcher
\* passes to synthesis is the submitted text without leading and trailing
\* whitespace, and the from and subject it parsed are the submitted header
\* values
C34_SubmitParseRoundTrip ==
    \A i \in DOMAIN handed :
        handed[i].read.outcome = "synthesize"
        => /\ handed[i].read.body = str_strip(i.text, Whitespace)
           /\ handed[i].read.from = str_strip(Get(i.headers, "from"), Whitespace)
           /\ handed[i].read.subject
                = str_strip(Get(i.headers, "subject"), Whitespace)

\* C35: the dispatcher never calls synthesis with an empty body: a claimed
\* job whose body is empty gets the error record "Empty text after
\* preprocessing"
C35_NoSynthesisOfEmptyText ==
    \A i \in DOMAIN handed :
        handed[i].read.outcome = "synthesize" => handed[i].read.body # <<>>

\* C33: every segment of a derived output_rel is non-empty, has none of the
\* characters \ / < > : " | ? *, has no two whitespace characters in a row,
\* and neither starts nor ends with a space or a dot (so none is "." or
\* ".."), for every locator and every header value
SegmentOk(seg) ==
    /\ seg # <<>>
    /\ \A n \in 1..Len(seg) : seg[n] \notin InvalidChars
    /\ \A n \in 1..(Len(seg) - 1) :
          ~(seg[n] \in Whitespace /\ seg[n + 1] \in Whitespace)
    /\ seg[1] \notin {" ", "."}
    /\ seg[Len(seg)] \notin {" ", "."}
C32_ComposerNamesEngineAndVoice ==
    \A i \in DOMAIN handed :
        handed[i].read.embedded # NoComposer
        => /\ handed[i].read.embedded.engine = handed[i].read.be
           /\ handed[i].read.embedded.voice \in Voices

\* C36: whenever the dispatcher has finished handling a claimed job (error
\* record for an empty text or an unusable backend, synthesis or finalizer
\* ended one way or the other), the job is ready or errored right then
TerminalAfter(j) ==
    LET p == IF json'[j].st = "full" THEN RelPath(json'[j].output_rel)
                                      ELSE BasePath(j)
        size == IF mp3'[p] < 0 THEN 0
                ELSE mp3'[p] + (IF p \in tagged' THEN 1 ELSE 0)
    IN  size > 0 \/ err'[p].msg # ""
C36_NoClaimedJobInLimbo ==
    [][/\ (pc["d1"] \in {"synth", "finalize"} /\ pc'["d1"] = "poll")
          => TerminalAfter(cur["d1"])
       /\ (last'.by = "d1" /\ last'.claimed # NoJob /\ ~last'.synth)
          => TerminalAfter(last'.claimed)]_vars

\* C37: a submitted job is ready only through its own synthesis: a ready
\* submitted job was claimed by the dispatcher, and two distinct submitted
\* jobs never share an artifact path (the error record sits beside it)
C37_ReadyOnlyThroughOwnSynthesis ==
    /\ \A j \in Jobs :
           (Submitted(j) /\ is_ready(j)) => \E d \in Disps : j \in seen[d]
    /\ \A j, k \in Jobs :
           (j # k /\ Submitted(j) /\ Submitted(k)) => OutPath(j) # OutPath(k)
====
